---- MODULE Spec2Model ----
(***************************************************************************)
(* Model of the task timer of src/app/index.tsx (component App).           *)
(*                                                                         *)
(* The component keeps a list of tasks, a clock value `now` refreshed by   *)
(* a 1-second interval, and mirrors the list into AsyncStorage under the   *)
(* key 'tasks' from a useEffect that runs after every change of the list.  *)
(* Time is in milliseconds, as Date.now() gives it.                        *)
(*                                                                         *)
(* A handler, the re-render it causes and the save effect of that render   *)
(* form one step: React commits the update of a press, of a timer or of a  *)
(* promise continuation, and runs its effects, before the next event is    *)
(* handled.  AsyncStorage serves its requests one at a time in the order   *)
(* they were issued; a write that has not been served when the process     *)
(* ends is lost.                                                           *)
(***************************************************************************)
EXTENDS Integers, Sequences, FiniteSets, TLC

\* ------------------------------------------------------------------ bounds
\* first value of Date.now() the model looks at (any positive instant)
T0 == 1000
\* the wall clock moves in steps of ClockStep ms, up to MaxClock
ClockStep == 500
MaxClock == 2000
\* longest task list, most writes in flight, most process restarts
MaxTasks == 2
MaxPending == 2
MaxRestarts == 1
\* most running intervals of one task that the interval history follows
MaxIntervals == 2

\* ------------------------------------------------------- program constants
\* period of the setInterval that refreshes `now`
TickPeriod == 1000
\* divisor of the millisecond difference in Math.floor((a - b) / 1000)
MsPerSecond == 1000
\* value of an optional field that is not set (startTimestamp?: number)
Undefined == -1

Clocks == { c \in T0..MaxClock : (c - T0) % ClockStep = 0 }

\* what the TextInput can hold when Add is pressed (taskName): a name is a
\* tuple of characters
NameInputs == { <<>>, <<" ">>, <<" ", "a">> }

VARIABLES
  tasks,      \* useState<Task[]>: the in-memory task list
  now,        \* useState(Date.now()): the component's clock value
  clock,      \* the wall clock, what Date.now() returns
  store,      \* AsyncStorage: the value under the key 'tasks'
  pending,    \* setItem requests issued and not yet served, oldest first
  loadPc,     \* position of loadTasks: "reading" (awaiting getItem), "done"
  saved,      \* what getItem resolves to, while loadTasks awaits it
  dialog,     \* the Alert that is open, if any
  restarts,   \* number of process restarts so far
  removed,    \* history (SpecHistory): ids whose removal the user confirmed
  last,       \* history: the last step that set the task list, and its id
  hist        \* history: order of the served writes, running time per task

vars == << tasks, now, clock, store, pending, loadPc, saved, dialog,
           restarts, removed, last, hist >>

\* ------------------------------------------------------------ pure helpers

\* Math.floor(x / 1000)
FloorSeconds(x) == x \div MsPerSecond

\* JavaScript truthiness of an optional number: undefined and 0 are falsy
Truthy(n) == n # Undefined /\ n # 0

\* String.prototype.trim on a tuple of characters
IsSpace(ch) == ch \in { " ", "\t", "\n" }

RECURSIVE TrimStart(_)
TrimStart(s) == IF s = <<>> THEN s
                ELSE IF IsSpace(Head(s)) THEN TrimStart(Tail(s)) ELSE s

RECURSIVE TrimEnd(_)
TrimEnd(s) == IF s = <<>> THEN s
              ELSE IF IsSpace(s[Len(s)]) THEN TrimEnd(SubSeq(s, 1, Len(s) - 1))
              ELSE s

\* variant of Trim that returns its argument
TrimNothing(s) == s

Trim(s) == TrimEnd(TrimStart(s))

\* Date.now().toString()
NewId(t) == ToString(t)

Ids == { NewId(c) : c \in Clocks }

\* the newTask object literal of startTask
NewTask(name, t) ==
  [ id |-> NewId(t), name |-> name, accumulated |-> 0,
    startTimestamp |-> t, running |-> TRUE ]

\* variant of PauseOne that leaves startTimestamp set
PauseOneKeepsStart(t, id, d) ==
  IF t.id = id /\ t.running /\ Truthy(t.startTimestamp)
  THEN [ t EXCEPT !.accumulated = t.accumulated + FloorSeconds(d - t.startTimestamp),
                  !.running = FALSE ]
  ELSE t

\* variant of PauseOne that banks the milliseconds undivided
PauseOneMillis(t, id, d) ==
  IF t.id = id /\ t.running /\ Truthy(t.startTimestamp)
  THEN [ t EXCEPT !.accumulated = t.accumulated + (d - t.startTimestamp),
                  !.startTimestamp = Undefined,
                  !.running = FALSE ]
  ELSE t

\* variant of PauseOne without the test that the task is running
PauseOneUnguarded(t, id, d) ==
  IF t.id = id
  THEN [ t EXCEPT !.accumulated = t.accumulated + FloorSeconds(d - t.startTimestamp),
                  !.startTimestamp = Undefined,
                  !.running = FALSE ]
  ELSE t

\* the callback of prev.map in pauseTask
PauseOne(t, id, d) ==
  IF t.id = id /\ t.running /\ Truthy(t.startTimestamp)
  THEN [ t EXCEPT !.accumulated = t.accumulated + FloorSeconds(d - t.startTimestamp),
                  !.startTimestamp = Undefined,
                  !.running = FALSE ]
  ELSE t

\* variant of ResumeOne that starts the count over
ResumeOneResetsAccumulated(t, id, d) ==
  IF t.id = id
  THEN [ t EXCEPT !.accumulated = 0, !.startTimestamp = d, !.running = TRUE ]
  ELSE t

\* the callback of prev.map in resumeTask
ResumeOne(t, id, d) ==
  IF t.id = id
  THEN [ t EXCEPT !.startTimestamp = d, !.running = TRUE ]
  ELSE t

\* variant of ResetOne that zeroes the count and leaves the task running
ResetOneKeepsRunning(t, id) ==
  IF t.id = id
  THEN [ t EXCEPT !.accumulated = 0 ]
  ELSE t

\* variant of ResetOne that resets every task of the list
ResetOneAll(t, id) ==
  [ t EXCEPT !.accumulated = 0, !.startTimestamp = Undefined, !.running = FALSE ]

\* the callback of prev.map in the onPress of resetTask
ResetOne(t, id) ==
  IF t.id = id
  THEN [ t EXCEPT !.accumulated = 0, !.startTimestamp = Undefined, !.running = FALSE ]
  ELSE t

\* the callback of prev.filter in the onPress of removeTask
KeepOne(t, id) == t.id # id

\* variant of Elapsed with the operands of the subtraction exchanged
ElapsedSwapped(item, n) ==
  IF item.running /\ Truthy(item.startTimestamp)
  THEN item.accumulated + FloorSeconds(item.startTimestamp - n)
  ELSE item.accumulated

\* the seconds renderItem hands to formatTime for item when the clock value is n
Elapsed(item, n) ==
  IF item.running /\ Truthy(item.startTimestamp)
  THEN item.accumulated + FloorSeconds(n - item.startTimestamp)
  ELSE item.accumulated

\* tasks.find(t => t.id === id): index of the first match, 0 when there is none
Find(s, id) ==
  IF \E i \in 1..Len(s) : s[i].id = id
  THEN CHOOSE i \in 1..Len(s) : s[i].id = id /\ \A j \in 1..(i - 1) : s[j].id # id
  ELSE 0

\* JSON.stringify of one task: a property whose value is undefined is left out
StringifyTask(t) ==
  IF t.startTimestamp = Undefined
  THEN [ id |-> t.id, name |-> t.name, accumulated |-> t.accumulated,
         running |-> t.running ]
  ELSE [ id |-> t.id, name |-> t.name, accumulated |-> t.accumulated,
         startTimestamp |-> t.startTimestamp, running |-> t.running ]

\* JSON.stringify(tasks)
Stringify(s) == [ i \in 1..Len(s) |-> StringifyTask(s[i]) ]

\* variant of ParseTask that banks the time since startTimestamp on load and
\* keeps startTimestamp
ParseTaskCatchUp(o) ==
  [ id |-> o.id, name |-> o.name,
    accumulated |-> IF "startTimestamp" \in DOMAIN o /\ o.running
                    THEN o.accumulated + FloorSeconds(clock - o.startTimestamp)
                    ELSE o.accumulated,
    startTimestamp |-> IF "startTimestamp" \in DOMAIN o THEN o.startTimestamp
                       ELSE Undefined,
    running |-> o.running ]

\* one object of JSON.parse(saved), read as a Task: a missing property reads
\* as undefined
ParseTask(o) ==
  [ id |-> o.id, name |-> o.name, accumulated |-> o.accumulated,
    startTimestamp |-> IF "startTimestamp" \in DOMAIN o THEN o.startTimestamp
                       ELSE Undefined,
    running |-> o.running ]

\* JSON.parse(saved)
Parse(v) == [ i \in 1..Len(v) |-> ParseTask(v[i]) ]

\* the value under a key: absent (getItem gives null) or a string
\* a stored text on which JSON.parse throws
Garbage == << [ text |-> "{" ] >>

\* JSON.parse(v) returns
Parsable(v) == v # Garbage

Absent == [ has |-> FALSE, value |-> <<>> ]
Stored(v) == [ has |-> TRUE, value |-> v ]

NoDialog == [ kind |-> "none", id |-> "" ]
Op(name, id) == [ op |-> name, id |-> id ]

\* a save effect that serializes the list of the previous render
SaveEffectStale(newTasks) == Append(pending, Stringify(tasks))

\* the save effect: useEffect(..., [tasks]) runs after every render in which
\* the list is a new array, and issues setItem without awaiting it
SaveEffect(newTasks) == Append(pending, Stringify(newTasks))

\* The history `hist`: fifo says that every write served in this process was
\* the oldest one in flight; run[i] follows tasks[i] since its creation or
\* last reset: ran = milliseconds spent running, n = running intervals (a
\* start or resume up to the next pause).  run is followed only when timed.
NoHistory == [ timed |-> FALSE, fifo |-> TRUE, run |-> <<>> ]

\* run after startTask appended a task
RunAfterAdd ==
  IF hist.timed
  THEN [ hist EXCEPT !.run = Append(hist.run, [ ran |-> 0, n |-> 1 ]) ]
  ELSE hist

\* run after resumeTask(id): a paused task begins a new interval
RunAfterResume(id) ==
  IF hist.timed
  THEN [ hist EXCEPT !.run =
           [ i \in 1..Len(tasks) |->
               IF tasks[i].id = id /\ ~tasks[i].running
               THEN [ hist.run[i] EXCEPT !.n = hist.run[i].n + 1 ]
               ELSE hist.run[i] ] ]
  ELSE hist

\* run after the reset of id
RunAfterReset(id) ==
  IF hist.timed
  THEN [ hist EXCEPT !.run =
           [ i \in 1..Len(tasks) |->
               IF tasks[i].id = id THEN [ ran |-> 0, n |-> 0 ] ELSE hist.run[i] ] ]
  ELSE hist

\* the entries of run whose task has another id than id, in order
RECURSIVE KeepRun(_, _, _)
KeepRun(ts, rs, id) ==
  IF ts = <<>> THEN <<>>
  ELSE IF Head(ts).id # id
       THEN << Head(rs) >> \o KeepRun(Tail(ts), Tail(rs), id)
       ELSE KeepRun(Tail(ts), Tail(rs), id)

\* run after the removal of id
RunAfterRemove(id) ==
  IF hist.timed
  THEN [ hist EXCEPT !.run = KeepRun(tasks, hist.run, id) ]
  ELSE hist

\* run after loadTasks set the list to newTasks
RunAfterLoad(newTasks) ==
  IF hist.timed
  THEN [ hist EXCEPT !.run =
           [ i \in 1..Len(newTasks) |->
               [ ran |-> 0, n |-> IF newTasks[i].running THEN 1 ELSE 0 ] ] ]
  ELSE hist

\* run after step ms have passed
RunAfterTime(step) ==
  IF hist.timed
  THEN [ hist EXCEPT !.run =
           [ i \in 1..Len(tasks) |->
               IF tasks[i].running
               THEN [ hist.run[i] EXCEPT !.ran = hist.run[i].ran + step ]
               ELSE hist.run[i] ] ]
  ELSE hist

\* resumeTask(id) begins no interval beyond those the history follows
IntervalsLeft(id) ==
  hist.timed =>
    \A i \in 1..Len(tasks) :
      (tasks[i].id = id /\ ~tasks[i].running) => hist.run[i].n < MaxIntervals

\* ------------------------------------------------------------------ Init
\* The state after the first render and its two effects, on a device where
\* the key was never written: loadTasks awaits getItem, the interval is set,
\* and the save effect has issued setItem with the initial empty list.
Mounted ==
  /\ tasks = <<>>
  /\ clock = T0
  /\ now = T0
  /\ store = Absent
  /\ pending = << Stringify(<<>>) >>
  /\ loadPc = "reading"
  /\ saved = Absent
  /\ dialog = NoDialog
  /\ restarts = 0
  /\ removed = {}
  /\ last = Op("mount", "")

Init == Mounted /\ hist = NoHistory

\* the same first state, with the running time of every task followed
InitTimed == Mounted /\ hist = [ NoHistory EXCEPT !.timed = TRUE ]

\* the user can press a button of the screen: no Alert covers it
CanPress == dialog = NoDialog

\* -------------------------------------------------------------- actions
\* `last` is set by the steps that call setTasks; the other steps keep it.

\* the Add button with `name` in the input field: startTask(name), then the
\* render and its save effect
StartTask(name) ==
  /\ CanPress
  /\ IF Trim(name) = <<>>
     THEN /\ dialog' = [ kind |-> "error", id |-> "" ]
          /\ UNCHANGED << tasks, pending, last, hist >>
     ELSE /\ Len(tasks) < MaxTasks
          /\ Len(pending) < MaxPending
          /\ tasks' = Append(tasks, NewTask(name, clock))
          /\ pending' = SaveEffect(tasks')
          /\ last' = Op("add", NewId(clock))
          /\ hist' = RunAfterAdd
          /\ UNCHANGED dialog
  /\ UNCHANGED << now, clock, store, loadPc, saved, restarts, removed >>

\* pauseTask(id), then the render and its save effect
PauseTask(id) ==
  /\ Len(pending) < MaxPending
  /\ tasks' = [ i \in 1..Len(tasks) |-> PauseOne(tasks[i], id, clock) ]
  /\ pending' = SaveEffect(tasks')
  /\ last' = Op("pause", id)
  /\ UNCHANGED hist

\* resumeTask(id), then the render and its save effect
ResumeTask(id) ==
  /\ Len(pending) < MaxPending
  /\ IntervalsLeft(id)
  /\ tasks' = [ i \in 1..Len(tasks) |-> ResumeOne(tasks[i], id, clock) ]
  /\ pending' = SaveEffect(tasks')
  /\ last' = Op("resume", id)
  /\ hist' = RunAfterResume(id)

\* the Pause/Start button of a task: toggleTask(id)
ToggleTask(id) ==
  /\ CanPress
  /\ IF Find(tasks, id) = 0
     THEN UNCHANGED << tasks, pending, last, hist >>
     ELSE IF tasks[Find(tasks, id)].running
          THEN PauseTask(id)
          ELSE ResumeTask(id)
  /\ UNCHANGED << now, clock, store, loadPc, saved, dialog, restarts, removed >>

\* the Reset button of a task: resetTask(id) up to Alert.alert
ResetTask(id) ==
  /\ CanPress
  /\ IF Find(tasks, id) = 0
     THEN UNCHANGED dialog
     ELSE dialog' = [ kind |-> "reset", id |-> id ]
  /\ UNCHANGED << tasks, now, clock, store, pending, loadPc, saved, restarts,
                  removed, last, hist >>

\* the Remove button of a task: removeTask(id) up to Alert.alert
RemoveTask(id) ==
  /\ CanPress
  /\ IF Find(tasks, id) = 0
     THEN UNCHANGED dialog
     ELSE dialog' = [ kind |-> "remove", id |-> id ]
  /\ UNCHANGED << tasks, now, clock, store, pending, loadPc, saved, restarts,
                  removed, last, hist >>

\* the Cancel button of an Alert, or the OK button of the error Alert
DialogCancel ==
  /\ dialog # NoDialog
  /\ dialog' = NoDialog
  /\ UNCHANGED << tasks, now, clock, store, pending, loadPc, saved, restarts,
                  removed, last, hist >>

\* the Reset button of the Alert of resetTask: its onPress, the render, the save
ConfirmReset ==
  /\ dialog.kind = "reset"
  /\ Len(pending) < MaxPending
  /\ tasks' = [ i \in 1..Len(tasks) |-> ResetOne(tasks[i], dialog.id) ]
  /\ pending' = SaveEffect(tasks')
  /\ dialog' = NoDialog
  /\ last' = Op("reset", dialog.id)
  /\ hist' = RunAfterReset(dialog.id)
  /\ UNCHANGED << now, clock, store, loadPc, saved, restarts, removed >>

\* the Remove button of the Alert of removeTask: its onPress, the render, the
\* save; `record` says whether the history variable notes the removal
RemoveConfirmed(record) ==
  /\ dialog.kind = "remove"
  /\ Len(pending) < MaxPending
  /\ tasks' = SelectSeq(tasks, LAMBDA t : KeepOne(t, dialog.id))
  /\ pending' = SaveEffect(tasks')
  /\ dialog' = NoDialog
  /\ removed' = IF record THEN removed \cup { dialog.id } ELSE removed
  /\ last' = Op("remove", dialog.id)
  /\ hist' = RunAfterRemove(dialog.id)
  /\ UNCHANGED << now, clock, store, loadPc, saved, restarts >>

ConfirmRemove == RemoveConfirmed(FALSE)

ConfirmRemoveRecorded == RemoveConfirmed(TRUE)

\* a refresh that also adds a second to every running task
TickAccumulating ==
  /\ clock - now >= TickPeriod
  /\ now' = clock
  /\ tasks' = [ i \in 1..Len(tasks) |->
                  IF tasks[i].running
                  THEN [ tasks[i] EXCEPT !.accumulated = tasks[i].accumulated + 1 ]
                  ELSE tasks[i] ]
  /\ UNCHANGED << clock, store, pending, loadPc, saved, dialog,
                  restarts, removed, last, hist >>

\* the setInterval callback: setNow(Date.now()), no sooner than a period
\* after the last refresh
Tick ==
  /\ clock - now >= TickPeriod
  /\ now' = clock
  /\ UNCHANGED << tasks, clock, store, pending, loadPc, saved, dialog,
                  restarts, removed, last, hist >>

\* the continuation of loadTasks after `await AsyncStorage.getItem('tasks')`
LoadComplete ==
  /\ loadPc = "reading"
  /\ saved' = Absent
  /\ IF ~saved.has
     THEN /\ loadPc' = "done"
          /\ UNCHANGED << tasks, pending, last, hist >>
     ELSE IF Parsable(saved.value)
     THEN /\ Len(pending) < MaxPending
          /\ loadPc' = "done"
          /\ tasks' = Parse(saved.value)
          /\ pending' = SaveEffect(tasks')
          /\ last' = Op("load", "")
          /\ hist' = RunAfterLoad(tasks')
     ELSE \* JSON.parse throws in the async function, which nothing catches:
          \* the promise of loadTasks() is rejected and never handled
          /\ loadPc' = "rejected"
          /\ UNCHANGED << tasks, pending, last, hist >>
  /\ UNCHANGED << now, clock, store, dialog, restarts, removed >>

\* the value under 'tasks' is replaced from outside the component by a text
\* that is no JSON (a truncated or foreign value)
CorruptStore ==
  /\ store # Stored(Garbage)
  /\ store' = Stored(Garbage)
  /\ UNCHANGED << tasks, now, clock, pending, loadPc, saved, dialog, restarts,
                  removed, last, hist >>

\* a store that does not keep the order of the requests serves a setItem
\* request while an older one is still in flight
WriteCompleteLater ==
  /\ \E i \in 2..Len(pending) :
       /\ store' = Stored(pending[i])
       /\ pending' = SubSeq(pending, 1, i - 1) \o SubSeq(pending, i + 1, Len(pending))
  /\ hist' = [ hist EXCEPT !.fifo = FALSE ]
  /\ UNCHANGED << tasks, now, clock, loadPc, saved, dialog, restarts,
                  removed, last >>

\* AsyncStorage serves the oldest setItem request
WriteComplete ==
  /\ pending # <<>>
  /\ store' = Stored(Head(pending))
  /\ pending' = Tail(pending)
  /\ UNCHANGED << tasks, now, clock, loadPc, saved, dialog, restarts,
                  removed, last, hist >>

\* time passes
AdvanceClock ==
  /\ clock + ClockStep <= MaxClock
  /\ clock' = clock + ClockStep
  /\ hist' = RunAfterTime(ClockStep)
  /\ UNCHANGED << tasks, now, store, pending, loadPc, saved, dialog,
                  restarts, removed, last >>

\* The process ends and the app is opened again: component state starts
\* over (useState initial values), requests not yet served are lost, and the
\* mount effects run: loadTasks issues getItem, which is served before any
\* later request, and the save effect issues setItem with the empty list.
Restart ==
  /\ restarts < MaxRestarts
  /\ restarts' = restarts + 1
  /\ tasks' = <<>>
  /\ now' = clock
  /\ saved' = store
  /\ loadPc' = "reading"
  /\ pending' = << Stringify(<<>>) >>
  /\ dialog' = NoDialog
  /\ last' = Op("mount", "")
  /\ hist' = [ hist EXCEPT !.fifo = TRUE, !.run = <<>> ]
  /\ UNCHANGED << clock, store, removed >>

\* every step but the confirmation of a removal
\* the steps of one process of the app, but for the confirmed removal
Use ==
  \/ \E name \in NameInputs : StartTask(name)
  \/ \E id \in Ids : ToggleTask(id)
  \/ \E id \in Ids : ResetTask(id)
  \/ \E id \in Ids : RemoveTask(id)
  \/ DialogCancel
  \/ ConfirmReset
  \/ Tick
  \/ LoadComplete
  \/ WriteComplete
  \/ AdvanceClock

Step == Use \/ Restart

Next == Step \/ ConfirmRemove

Spec == Init /\ [][Next]_vars

\* the same program, with the confirmed removals recorded in `removed`
NextHistory == Step \/ ConfirmRemoveRecorded

\* the store may hold a text that is no JSON
NextCorrupt == Next \/ CorruptStore

SpecCorrupt == Init /\ [][NextCorrupt]_vars

\* one process of the app, from its mount on
OneRun == Use \/ ConfirmRemove

\* one process of the app over a store that may serve the writes in any order
NextUnordered == OneRun \/ WriteCompleteLater

SpecUnordered == Init /\ [][NextUnordered]_vars

\* one process of the app, with the running time of every task followed
SpecTimed == InitTimed /\ [][OneRun]_vars

SpecHistory == Init /\ [][NextHistory]_vars

\* ---------------------------------------------------------------- claims

\* instants at which the elapsed time is queried, and delays after a start
QueryTimes ==
  { T0, T0 + 1, T0 + 999, T0 + ClockStep, MaxClock, MaxClock + 1000, MaxClock + 60000 }
\* the pairs of query instants with the first no later than the second
QueryPairs == { n \in QueryTimes \X QueryTimes : n[1] <= n[2] }
Delays == { 0, 1, 999, 1000, 1001, 1999, 60000 }

TaskIndexes == 1..Len(tasks)

\* the ids of the tasks in a stored value
StoreIds(st) == { st.value[i].id : i \in 1..Len(st.value) }

\* the task list as it was before the step that set it last, when the write
\* issued for that earlier list has not been served yet
BeforeLast == Parse(pending[Len(pending) - 1])

\* C1: restart durability.  When load completes with a stored list, every
\* task stored as running with accumulated = a and startTimestamp = T is in
\* the list with the same a and T, and its elapsed time queried at T + d is
\* a + floor(d / 1000) for every delay d: no catch-up, nothing lost.
C1_RestartDurability ==
  [][ (loadPc = "reading" /\ loadPc' = "done" /\ saved.has) =>
        /\ Len(tasks') = Len(saved.value)
        /\ \A i \in 1..Len(saved.value) :
             LET o == saved.value[i] IN
             (o.running /\ "startTimestamp" \in DOMAIN o) =>
               /\ tasks'[i].running
               /\ tasks'[i].accumulated = o.accumulated
               /\ tasks'[i].startTimestamp = o.startTimestamp
               /\ \A d \in Delays :
                    Elapsed(tasks'[i], o.startTimestamp + d)
                      = o.accumulated + (d \div MsPerSecond) ]_vars

\* a load after a restart has brought back a running task started at least a
\* second before
C1_Witness ==
  /\ last.op = "load"
  /\ restarts >= 1
  /\ \E i \in TaskIndexes :
       /\ tasks[i].running
       /\ clock - tasks[i].startTimestamp >= MsPerSecond
       /\ Elapsed(tasks[i], clock) >= 1

\* C2: a task held by the store and not removed by the user is still held by
\* the store after every step (the process may end after any step).
C2_PersistedTasksStay ==
  [][ \A id \in StoreIds(store) : id \in removed' \/ id \in StoreIds(store') ]_vars

\* C3: the elapsed seconds displayed for every task, computed with the clock
\* value `now` of the component, is never negative.
C3_DisplayedNonNegative ==
  \A i \in TaskIndexes : Elapsed(tasks[i], now) >= 0

\* C4: for every task of a reachable list, the queried elapsed time does not
\* decrease as the query instant grows when the task is running, and is the
\* same at every query instant when it is paused.
C4_MonotoneInNow ==
  \A i \in TaskIndexes :
    IF tasks[i].running
    THEN \A n \in QueryPairs :
           Elapsed(tasks[i], n[1]) <= Elapsed(tasks[i], n[2])
    ELSE \A n \in QueryTimes :
           Elapsed(tasks[i], n) = Elapsed(tasks[i], T0)

\* the list holds a paused task with banked time and a running task whose
\* elapsed time grows over the query instants
C4_Witness ==
  /\ \E i \in TaskIndexes : ~tasks[i].running /\ tasks[i].accumulated > 0
  /\ \E i \in TaskIndexes :
       /\ tasks[i].running
       /\ tasks[i].startTimestamp < clock
       /\ \E n1, n2 \in QueryTimes :
            n1 < n2 /\ Elapsed(tasks[i], n1) < Elapsed(tasks[i], n2)

\* C5: in every reachable state every task of the list has startTimestamp
\* defined if and only if running is true.
C5_StartedIffRunning ==
  \A i \in TaskIndexes : (tasks[i].startTimestamp # Undefined) <=> tasks[i].running

\* a list that came back from the store holds a paused and a running task
C5_Witness ==
  /\ last.op = "load"
  /\ \E i \in TaskIndexes : tasks[i].running
  /\ \E i \in TaskIndexes : ~tasks[i].running

\* C6: the id given by a successful add differs from the id of every other
\* task of the list and from every id whose removal was confirmed.
C6_FreshIds ==
  last.op = "add" =>
    /\ last.id \notin removed
    /\ \A j \in 1..(Len(tasks) - 1) : tasks[j].id # tasks[Len(tasks)].id

\* C7: for every running task of a reachable list and every instant d not
\* before its start, pausing it at d and resuming it at d leaves the elapsed
\* time queried at d as it was before the pause.
C7_PauseResumePreserves ==
  \A i \in TaskIndexes :
    tasks[i].running =>
      \A d \in QueryTimes \cup { clock } :
        d >= tasks[i].startTimestamp =>
          Elapsed(ResumeOne(PauseOne(tasks[i], tasks[i].id, d), tasks[i].id, d), d)
            = Elapsed(tasks[i], d)

\* a task has just been resumed, at the instant of its pause, with banked time
C7_Witness ==
  /\ last.op = "resume"
  /\ Len(pending) >= 2
  /\ \E i \in TaskIndexes :
       /\ tasks[i].id = last.id
       /\ tasks[i].running
       /\ tasks[i].startTimestamp = clock
       /\ tasks[i].accumulated > 0
       /\ ~BeforeLast[i].running

\* C8: once a reset is confirmed, and until the list is set again, every task
\* with the id of the reset has accumulated = 0, running = false, no
\* startTimestamp, and an elapsed time of 0 at every query instant.
C8_ResetYieldsZero ==
  last.op = "reset" =>
    \A i \in TaskIndexes :
      tasks[i].id = last.id =>
        /\ tasks[i].accumulated = 0
        /\ ~tasks[i].running
        /\ tasks[i].startTimestamp = Undefined
        /\ \A n \in QueryTimes \cup { now, clock } : Elapsed(tasks[i], n) = 0

\* a reset has been confirmed for a task that was running with banked time
C8_Witness ==
  /\ last.op = "reset"
  /\ Len(pending) >= 2
  /\ \E i \in TaskIndexes :
       /\ tasks[i].id = last.id
       /\ BeforeLast[i].running
       /\ BeforeLast[i].accumulated > 0

\* C9: once the removal of id is confirmed, no task of the list has that id,
\* and every later toggle, confirmed reset or confirmed remove for that id
\* leaves the list as it is.
C9_RemovedIdUnresolvable ==
  [][ \A id \in removed :
        /\ Find(tasks, id) = 0
        /\ ( \/ ToggleTask(id)
             \/ (dialog.id = id /\ (ConfirmReset \/ ConfirmRemoveRecorded)) )
           => tasks' = tasks ]_vars

\* a name that is empty or made of white space only
OnlySpaces(name) == \A k \in 1..Len(name) : name[k] \in { " ", "\t", "\n" }

\* C10: an add with an empty or white-space name leaves the list and the
\* writes in flight as they are; an add with any other name appends one task
\* with running = true, accumulated = 0, startTimestamp = the current instant.
C10_AddValidation ==
  [][ \A name \in NameInputs :
        StartTask(name) =>
          IF OnlySpaces(name)
          THEN tasks' = tasks /\ pending' = pending
          ELSE /\ Len(tasks') = Len(tasks) + 1
               /\ SubSeq(tasks', 1, Len(tasks)) = tasks
               /\ tasks'[Len(tasks')].name = name
               /\ tasks'[Len(tasks')].running
               /\ tasks'[Len(tasks')].accumulated = 0
               /\ tasks'[Len(tasks')].startTimestamp = clock ]_vars

\* an add was refused (its Alert is open) after another add had succeeded
C10_Witness ==
  /\ dialog.kind = "error"
  /\ last.op = "add"
  /\ Len(tasks) >= 1


\* C11: load fails soft: with the value under 'tasks' absent or not parsable,
\* load raises no uncaught error (the promise of loadTasks is never rejected
\* without a handler).
C11_LoadFailsSoft == loadPc # "rejected"

C13_TickOnlyNow ==
  [][ (now' # now /\ restarts' = restarts) =>
        /\ tasks' = tasks
        /\ pending' = pending
        /\ store' = store
        /\ dialog' = dialog
        /\ loadPc' = loadPc ]_vars

C13_Witness ==
  /\ restarts = 0
  /\ now > T0
  /\ pending = <<>>
  /\ \E i \in TaskIndexes :
       tasks[i].running /\ tasks[i].startTimestamp < now

\* the scenario of the specification on a time line that begins at t0: a task
\* added at t0 and paused at t0 + 5000 has accumulated = 5, still shows 5 at
\* t0 + 9000, and after a resume at t0 + 9000 shows 8 at t0 + 12000
PauseScenario(t0) ==
  LET a == NewTask(<< "a" >>, t0)
      p == PauseOne(a, a.id, t0 + 5000)
      r == ResumeOne(p, a.id, t0 + 9000)
  IN  /\ a.running /\ a.accumulated = 0
      /\ Elapsed(a, t0 + 5000) = 5
      /\ p.accumulated = 5 /\ ~p.running /\ p.startTimestamp = Undefined
      /\ Elapsed(p, t0 + 9000) = 5
      /\ r.running /\ r.startTimestamp = t0 + 9000
      /\ Elapsed(r, t0 + 12000) = 8

C15_ToggleFlips ==
  [][ \A id \in Ids :
        ToggleTask(id) =>
          IF Find(tasks, id) = 0
          THEN tasks' = tasks
          ELSE /\ Len(tasks') = Len(tasks)
               /\ \A i \in TaskIndexes :
                    tasks[i].id = id => (tasks'[i].running <=> ~tasks[i].running) ]_vars

\* instants of a second pause, at once or later
PauseTimes == { clock, clock + MsPerSecond + 1, clock + 60000 }

\* C16: pause applied now to a paused task of a reachable list leaves the
\* task as it is, and for every task of a reachable list pause applied now
\* and then again, at once or later, gives the task that the first pause gives.
C16_PauseIdempotent ==
  \A i \in TaskIndexes :
    LET t == tasks[i]
        p == PauseOne(t, t.id, clock)
    IN  /\ ~t.running => p = t
        /\ \A d \in PauseTimes : PauseOne(p, t.id, d) = p

\* a task paused with banked time is in the list, next to a running one
C16_Witness ==
  /\ last.op = "pause"
  /\ \E i \in TaskIndexes :
       /\ tasks[i].id = last.id
       /\ ~tasks[i].running
       /\ tasks[i].accumulated > 0
       /\ PauseOne(tasks[i], tasks[i].id, clock + MsPerSecond) = tasks[i]
  /\ \E j \in TaskIndexes : tasks[j].running /\ tasks[j].startTimestamp < clock

\* the step confirms the reset or the removal of id
Confirms(kind, id) ==
  dialog.kind = kind /\ dialog.id = id /\ dialog' = NoDialog /\ last'.op = kind

\* C17: within one process, every task of the list is still in the list
\* after every step but the confirmed removal of its id.
C17_AddedTasksStay ==
  [][ restarts' = restarts =>
        \A i \in TaskIndexes :
          \/ Find(tasks', tasks[i].id) # 0
          \/ Confirms("remove", tasks[i].id) ]_vars

\* C18: within one process, the elapsed time of a task queried at the
\* current instant does not decrease across any step that keeps the task at
\* its place in the list, but the confirmed reset of its id.
C18_ElapsedNeverDecreases ==
  [][ restarts' = restarts =>
        \A i \in TaskIndexes :
          ( /\ i <= Len(tasks')
            /\ tasks'[i].id = tasks[i].id
            /\ ~Confirms("reset", tasks[i].id)
            /\ ~Confirms("remove", tasks[i].id) ) =>
            Elapsed(tasks'[i], clock') >= Elapsed(tasks[i], clock) ]_vars

\* the tasks of s with another id than id, in order
Others(s, id) == SelectSeq(s, LAMBDA t : t.id # id)

\* C19: a toggle (pause or resume) and a confirmed reset of id keep the
\* length of the list and every task with another id at its place,
\* unchanged; a confirmed removal of id leaves exactly the tasks with another
\* id, unchanged and in their order; an add keeps the list as a prefix and
\* appends one task.
C19_OtherTasksUntouched ==
  [][ /\ \A id \in Ids :
           (ToggleTask(id) \/ (Confirms("reset", id) /\ ConfirmReset)) =>
             /\ Len(tasks') = Len(tasks)
             /\ \A i \in TaskIndexes : tasks[i].id # id => tasks'[i] = tasks[i]
      /\ \A id \in Ids :
           (Confirms("remove", id) /\ ConfirmRemove) => tasks' = Others(tasks, id)
      /\ \A name \in NameInputs :
           (Trim(name) # <<>> /\ StartTask(name)) =>
             /\ Len(tasks') = Len(tasks) + 1
             /\ SubSeq(tasks', 1, Len(tasks)) = tasks
             /\ tasks'[Len(tasks')].id = NewId(clock) ]_vars

\* a reset has been confirmed while a task with another id was running with
\* banked time, and that task is as it was
C19_Witness ==
  /\ last.op = "reset"
  /\ Len(pending) >= 2
  /\ \E i, j \in TaskIndexes :
       /\ tasks[i].id = last.id
       /\ BeforeLast[i].running
       /\ tasks[j].id # last.id
       /\ tasks[j].running
       /\ tasks[j].accumulated > 0
       /\ tasks[j] = BeforeLast[j]

\* C20: for every task, with R the milliseconds it has spent running since
\* its creation or last reset and n the number of its running intervals, the
\* elapsed seconds queried at the current instant are at most floor(R / 1000)
\* and fall short of R / 1000 by less than n seconds (by nothing when n = 0).
C20_NoDoubleCountBoundedLoss ==
  hist.timed =>
    \A i \in TaskIndexes :
      LET e == Elapsed(tasks[i], clock)
          r == hist.run[i]
      IN  /\ e <= r.ran \div MsPerSecond
          /\ IF r.n = 0
             THEN r.ran = MsPerSecond * e
             ELSE r.ran - MsPerSecond * e < MsPerSecond * r.n

====
